---------------------------- MODULE Spec2Model ----------------------------
(***************************************************************************)
(* A model of src/src/lib.rs: the rsync-style delta encoder                *)
(* (create_patch_bytes), the patch decoder (apply_patch_bytes), the weak   *)
(* checksum (Rolling), the signature index (build_signatures) and the C    *)
(* boundary (xdelta_create_patch_data, xdelta_apply_patch_data,            *)
(* xdelta_last_error).                                                     *)
(*                                                                         *)
(* Fixed-width integers are little-endian sequences of bytes ("words"): a  *)
(* u32 is 4 bytes, a u64 and (on the 64-bit targets modelled here) a usize *)
(* are 8 bytes.  Arithmetic on words is done digit by digit with carry, so *)
(* the widths of the program are kept exactly.  Lengths and positions that *)
(* index the buffers of the model are natural numbers.                     *)
(***************************************************************************)
EXTENDS Integers, Sequences, FiniteSets, TLC

(***************************************************************************)
(* Bounds of the model.                                                    *)
(***************************************************************************)
MaxLen == 4
MaxBlock == 3
MaxRecs == 2
MaxCalls == 2

\* The byte values the inputs of the encoder are drawn from.  0 and 1 are
\* also the two opcodes, and windows of different lengths over them collide
\* on the weak checksum (<<1>> and <<0, 1>>; <<1, 0>> and <<0, 1, 0>>), so
\* the strong hash decides.
EncBytes == {0, 1}

Min(x, y) == IF x <= y THEN x ELSE y

RECURSIVE SeqsUpTo(_, _)
SeqsUpTo(S, n) ==
    IF n = 0 THEN {<<>>}
    ELSE LET shorter == SeqsUpTo(S, n - 1)
         IN  shorter \cup {Append(s, x) : s \in {q \in shorter : Len(q) = n - 1}, x \in S}

(***************************************************************************)
(* Words: little-endian byte sequences of a fixed width.                   *)
(***************************************************************************)
\* n.to_le_bytes() for an integer of `width` bytes; also the cast `n as uK`,
\* which keeps the low `width` bytes of n.
RECURSIVE to_le_bytes(_, _)
to_le_bytes(n, width) ==
    IF width = 0 THEN <<>>
    ELSE <<n % 256>> \o to_le_bytes(n \div 256, width - 1)

\* The value of a word as a natural number (uK::from_le_bytes), used only
\* on words known to be small.
RECURSIVE from_le_bytes(_)
from_le_bytes(w) ==
    IF w = <<>> THEN 0 ELSE Head(w) + 256 * from_le_bytes(Tail(w))

\* `w as usize` for a u32 or u64 word w: zero-extension to 8 bytes.
as_usize(w) == w \o [i \in 1..(8 - Len(w)) |-> 0]

\* The sum of two words of the same width with the carry out of the top byte.
RECURSIVE AddCarry(_, _, _)
AddCarry(x, y, c) ==
    IF x = <<>> THEN [sum |-> <<>>, carry |-> c]
    ELSE LET d == Head(x) + Head(y) + c
             r == AddCarry(Tail(x), Tail(y), d \div 256)
         IN  [sum |-> <<d % 256>> \o r.sum, carry |-> r.carry]

wrapping_add(x, y) == AddCarry(x, y, 0).sum

\* x < y for two words of the same width.
RECURSIVE WordLess(_, _)
WordLess(x, y) ==
    IF x = <<>> THEN FALSE
    ELSE LET n == Len(x)
         IN  IF x[n] # y[n] THEN x[n] < y[n]
             ELSE WordLess(SubSeq(x, 1, n - 1), SubSeq(y, 1, n - 1))

RECURSIVE BitAnd(_, _)
BitAnd(x, y) ==
    IF x = 0 \/ y = 0 THEN 0
    ELSE ((x % 2) * (y % 2)) + 2 * BitAnd(x \div 2, y \div 2)

RECURSIVE BitXor(_, _)
BitXor(x, y) ==
    IF x = 0 /\ y = 0 THEN 0
    ELSE ((x + y) % 2) + 2 * BitXor(x \div 2, y \div 2)

WordAnd(x, y) == [i \in 1..Len(x) |-> BitAnd(x[i], y[i])]
WordXor(x, y) == [i \in 1..Len(x) |-> BitXor(x[i], y[i])]

\* x << 16 on a u32: the two low bytes move up, the two high bytes are lost.
Shl16(x) == <<0, 0, x[1], x[2]>>

(***************************************************************************)
(* Rolling: the weak checksum.                                             *)
(***************************************************************************)
\* The loop of from_slice.  The product (buf.len() - i) as u32 * v as u32
\* is below 2^32 for every window shorter than 2^24 bytes, so it neither
\* wraps nor panics on the buffers of the model.
RECURSIVE FromSliceLoop(_, _, _, _)
FromSliceLoop(buf, i, a, b) ==
    IF i >= Len(buf) THEN [a |-> a, b |-> b, len |-> Len(buf)]
    ELSE LET v == buf[i + 1]
         IN  FromSliceLoop(buf, i + 1,
                 wrapping_add(a, to_le_bytes(v, 4)),
                 wrapping_add(b, to_le_bytes((Len(buf) - i) * v, 4)))

from_slice(buf) == FromSliceLoop(buf, 0, to_le_bytes(0, 4), to_le_bytes(0, 4))

\* Variant: a is not masked to its low 16 bits.
chksum_unmasked(r) == WordXor(Shl16(WordAnd(r.b, <<255, 255, 255, 255>>)), r.a)

chksum(r) ==
    WordXor(Shl16(WordAnd(r.b, <<255, 255, 255, 255>>)),
            WordAnd(r.a, <<255, 255, 0, 0>>))

(***************************************************************************)
(* The strong hash.  SHA-256 is taken to be collision free: the digest of  *)
(* a byte sequence stands for exactly that byte sequence.                  *)
(***************************************************************************)
Sha256(bytes) == <<"sha256", bytes>>

(***************************************************************************)
(* build_signatures: weak checksum -> entries in insertion (block) order.  *)
(***************************************************************************)
MapPush(map, key, entry) ==
    IF key \in DOMAIN map
    THEN [map EXCEPT ![key] = Append(@, entry)]
    ELSE [k \in (DOMAIN map) \cup {key} |-> IF k = key THEN <<entry>> ELSE map[k]]

RECURSIVE BuildLoop(_, _, _, _, _)
BuildLoop(old, block_size, map, idx, offset) ==
    IF offset >= Len(old) THEN map
    ELSE LET end == Min(offset + block_size, Len(old))
             slice == SubSeq(old, offset + 1, end)
             weak == chksum(from_slice(slice))
             entry == [block_index |-> idx, strong_hash |-> Sha256(slice)]
         IN  BuildLoop(old, block_size, MapPush(map, weak, entry),
                       idx + 1, offset + block_size)

EmptyMap == [k \in {} |-> <<>>]

build_signatures(old, block_size) == BuildLoop(old, block_size, EmptyMap, 0, 0)

(***************************************************************************)
(* create_patch_bytes: the encoder.                                        *)
(***************************************************************************)
XDeltaError(msg) == [kind |-> "Err", msg |-> msg, out |-> <<>>]
Ok(bytes) == [kind |-> "Ok", msg |-> "", out |-> bytes]
Panic(msg) == [kind |-> "Panic", msg |-> msg, out |-> <<>>]

\* One ADD record: opcode 0x00, the length as a u32, the bytes.
AddRecord(pending) == <<0>> \o to_le_bytes(Len(pending), 4) \o pending

\* One COPY record: opcode 0x01, the offset as a u64, the length as a u32.
CopyRecord(offset_in_old, copy_len) ==
    <<1>> \o to_le_bytes(offset_in_old, 8) \o to_le_bytes(copy_len, 4)

flush_add(out, pending) ==
    IF pending # <<>>
    THEN [out |-> out \o AddRecord(pending), pending |-> <<>>]
    ELSE [out |-> out, pending |-> pending]

\* Variant: the lookup never finds the key.
SigsGet_none(sigs, weak) == <<>>

\* sigs.get(&weak): the candidates, <<>> for None.
SigsGet(sigs, weak) == IF weak \in DOMAIN sigs THEN sigs[weak] ELSE <<>>

\* Variant: the last candidate with the window's strong hash wins.
LastMatch(vec, strong) ==
    LET hits == {i \in 1..Len(vec) : vec[i].strong_hash = strong}
    IN  IF hits = {} THEN 0 ELSE CHOOSE i \in hits : \A j \in hits : j <= i

\* Variant: the weak checksum is trusted, the strong hash not compared.
FirstMatch_weak_only(vec, strong) == IF Len(vec) > 0 THEN 1 ELSE 0

\* The index in vec of the entry the `for e in vec` loop stops at: the first
\* whose strong hash is the window's; 0 when the loop ends without a match.
FirstMatch(vec, strong) ==
    LET hits == {i \in 1..Len(vec) : vec[i].strong_hash = strong}
    IN  IF hits = {} THEN 0 ELSE CHOOSE i \in hits : \A j \in hits : i <= j

\* Variant: the block index is written as the offset.
CopyOffset_unscaled(block_index, block_size) == block_index

\* offset_in_old = e.block_index * (block_size as u64)
CopyOffset(block_index, block_size) == block_index * block_size

\* Variant: the flush waits for more than block_size bytes.
NeedsPeriodicFlush_gt(pending_add, block_size) == Len(pending_add) > block_size

\* pending_add.len() >= block_size
NeedsPeriodicFlush(pending_add, block_size) == Len(pending_add) >= block_size

\* One iteration of `while pos < new.len()`, entered with pos < Len(new).
\* st = [pos, pending_add, out]; the result adds what the iteration did.
EncIter(sigs, new, block_size, st) ==
    LET pos == st.pos
        remaining == Len(new) - pos
        try_len == Min(block_size, remaining)
    IN  IF try_len < 1
        THEN [pos |-> pos + 1, pending_add |-> Append(st.pending_add, new[pos + 1]),
              out |-> st.out, matched |-> FALSE, block_index |-> 0, brk |-> FALSE]
        ELSE IF pos + try_len <= Len(new)
        THEN LET window == SubSeq(new, pos + 1, pos + try_len)
                 weak == chksum(from_slice(window))
                 vec == SigsGet(sigs, weak)
                 hit == IF vec = <<>> THEN 0 ELSE FirstMatch(vec, Sha256(window))
             IN  IF hit # 0
                 THEN LET f == flush_add(st.out, st.pending_add)
                          e == vec[hit]
                      IN  [pos |-> pos + try_len,
                           pending_add |-> f.pending,
                           out |-> f.out \o CopyRecord(CopyOffset(e.block_index, block_size),
                                                        try_len),
                           matched |-> TRUE, block_index |-> e.block_index, brk |-> FALSE]
                 ELSE LET pushed == Append(st.pending_add, new[pos + 1])
                          f == IF NeedsPeriodicFlush(pushed, block_size)
                               THEN flush_add(st.out, pushed)
                               ELSE [out |-> st.out, pending |-> pushed]
                      IN  [pos |-> pos + 1, pending_add |-> f.pending, out |-> f.out,
                           matched |-> FALSE, block_index |-> 0, brk |-> FALSE]
        ELSE [pos |-> pos, pending_add |-> st.pending_add \o SubSeq(new, pos + 1, Len(new)),
              out |-> st.out, matched |-> FALSE, block_index |-> 0, brk |-> TRUE]

\* After the loop: the remaining adds are flushed and the patch is returned.
FinalFlush(out, pending_add) ==
    IF pending_add # <<>> THEN out \o AddRecord(pending_add) ELSE out

RECURSIVE EncodeLoop(_, _, _, _)
EncodeLoop(sigs, new, block_size, st) ==
    IF st.pos < Len(new)
    THEN LET n == EncIter(sigs, new, block_size, st)
         IN  IF n.brk THEN FinalFlush(n.out, n.pending_add)
             ELSE EncodeLoop(sigs, new, block_size,
                      [pos |-> n.pos, pending_add |-> n.pending_add, out |-> n.out])
    ELSE FinalFlush(st.out, st.pending_add)

create_patch_bytes(old, new, block_size) ==
    IF block_size = 0 THEN XDeltaError("block_size must be > 0")
    ELSE Ok(EncodeLoop(build_signatures(old, block_size), new, block_size,
                       [pos |-> 0, pending_add |-> <<>>, out |-> <<>>]))

(***************************************************************************)
(* apply_patch_bytes: the decoder.  `build` is "debug" (overflow checks    *)
(* on: an overflowing + panics) or "release" (off: it wraps).  A slice     *)
(* whose range is not inside its buffer panics, as Rust's indexing does.   *)
(***************************************************************************)
HexDigit == <<"0", "1", "2", "3", "4", "5", "6", "7",
              "8", "9", "a", "b", "c", "d", "e", "f">>

\* format!("{:#x}", byte)
HexByte(b) ==
    "0x" \o (IF b >= 16 THEN HexDigit[(b \div 16) + 1] ELSE "") \o HexDigit[(b % 16) + 1]

\* a + b on usize: [kind, word].
UsizeAdd(a, b, build) ==
    LET r == AddCarry(a, b, 0)
    IN  IF r.carry # 0 /\ build = "debug"
        THEN [kind |-> "Panic", word |-> r.sum]
        ELSE [kind |-> "Ok", word |-> r.sum]

\* The test `pos + n > buf.len()` with n a usize word; pos + n is assumed
\* computed without overflow.
ExceedsLen(end, buflen) == WordLess(to_le_bytes(buflen, 8), end)

\* &buf[start..end] with start and end usize words.
Slice(buf, start, end) ==
    IF WordLess(end, start) THEN Panic("slice index starts after its end")
    ELSE IF WordLess(to_le_bytes(Len(buf), 8), end)
    THEN Panic("range end index out of range for slice")
    ELSE Ok(SubSeq(buf, from_le_bytes(start) + 1, from_le_bytes(end)))

\* The test that lets a COPY through: !(offset + len > old.len()).
CopyInRange(sum, oldlen) == ~ExceedsLen(sum, oldlen)

\* The test that lets an ADD length be read: !(pos + 4 > patch.len()).
AddHeaderFits(pos, patchlen) == pos + 4 <= patchlen

RECURSIVE ApplyLoop(_, _, _, _, _)
ApplyLoop(old, patch, pos0, out, build) ==
    IF pos0 >= Len(patch) THEN Ok(out)
    ELSE
    LET opcode == patch[pos0 + 1]
        pos == pos0 + 1
    IN  CASE opcode = 0 ->
               IF ~AddHeaderFits(pos, Len(patch))
               THEN XDeltaError("truncated ADD length")
               ELSE LET lenb == Slice(patch, to_le_bytes(pos, 8), to_le_bytes(pos + 4, 8))
                    IN  IF lenb.kind # "Ok" THEN lenb
                        ELSE
                        LET len == as_usize(lenb.out)
                            end == UsizeAdd(to_le_bytes(pos + 4, 8), len, build)
                        IN  IF end.kind = "Panic" THEN Panic("attempt to add with overflow")
                            ELSE IF ExceedsLen(end.word, Len(patch))
                            THEN XDeltaError("truncated ADD data")
                            ELSE LET data == Slice(patch, to_le_bytes(pos + 4, 8), end.word)
                                 IN  IF data.kind # "Ok" THEN data
                                     ELSE ApplyLoop(old, patch, from_le_bytes(end.word),
                                                    out \o data.out, build)
          [] opcode = 1 ->
               IF pos + 8 + 4 > Len(patch)
               THEN XDeltaError("truncated COPY entry")
               ELSE LET offset == as_usize(SubSeq(patch, pos + 1, pos + 8))
                        len == as_usize(SubSeq(patch, pos + 9, pos + 12))
                        sum == UsizeAdd(offset, len, build)
                    IN  IF sum.kind = "Panic" THEN Panic("attempt to add with overflow")
                        ELSE IF ~CopyInRange(sum.word, Len(old))
                        THEN XDeltaError("COPY out of range")
                        ELSE LET data == Slice(old, offset, sum.word)
                             IN  IF data.kind # "Ok" THEN data
                                 ELSE ApplyLoop(old, patch, pos + 12, out \o data.out, build)
          [] OTHER -> XDeltaError("unknown opcode " \o HexByte(opcode))

apply_patch_bytes(old, patch, build) == ApplyLoop(old, patch, 0, <<>>, build)

(***************************************************************************)
(* State.                                                                  *)
(*   old, new, block_size, sigs, pos, pending_add, out: create_patch_bytes *)
(*     at the head of its loop; epc is its position; last is what the last *)
(*     iteration started from and did (history).                           *)
(*   patch, build, applied: the input and the result of apply_patch_bytes. *)
(*   rolling, weak_sum: a Rolling value and its chksum.                    *)
(*   last_error: the thread-local LAST_ERROR of each thread, "NULL" for    *)
(*     None.  slots: each thread's output variables, the ones its calls    *)
(*     pass the addresses of.  aborted: the process has panicked inside an *)
(*     extern "C" function.  calls: the calls that returned; pre_slot: the *)
(*     caller's slot as it was before the last of them; observed: the last *)
(*     value xdelta_last_error returned (history).                         *)
(***************************************************************************)
VARIABLES old, new, block_size, sigs, pos, pending_add, out, epc, last,
          patch, build, applied,
          rolling, weak_sum,
          last_error, slots, calls, pre_slot, observed, aborted

encVars == <<old, new, block_size, sigs, pos, pending_add, out, epc, last>>
decVars == <<patch, build, applied>>
chkVars == <<rolling, weak_sum>>
ffiVars == <<last_error, slots, calls, pre_slot, observed, aborted>>
vars == <<encVars, decVars, chkVars, ffiVars>>

NoIteration ==
    [valid |-> FALSE, pos |-> 0, pending_add |-> <<>>, out |-> <<>>,
     matched |-> FALSE, block_index |-> 0]

NotApplied == [kind |-> "none", msg |-> "", out |-> <<>>]

Threads == {"t1", "t2"}

\* An output slot as the caller set it up: a length and a pointer of its own.
CallerSlot == [len |-> 0, ptr |-> "callers", buf |-> <<>>]

NoObservation == [valid |-> FALSE, thread |-> "t1", msg |-> "NULL", ncalls |-> 0]

\* The variables of the parts a specification does not run.
EncIdle ==
    /\ old = <<>> /\ new = <<>> /\ block_size = 1 /\ sigs = EmptyMap
    /\ pos = 0 /\ pending_add = <<>> /\ out = <<>> /\ epc = "idle"
    /\ last = NoIteration
DecIdle == patch = <<>> /\ build = "unset" /\ applied = NotApplied
ChkIdle == rolling = from_slice(<<>>) /\ weak_sum = <<>>
FfiIdle ==
    /\ last_error = [t \in Threads |-> "NULL"]
    /\ slots = [t \in Threads |-> CallerSlot]
    /\ calls = <<>> /\ pre_slot = CallerSlot
    /\ observed = NoObservation /\ aborted = FALSE

(***************************************************************************)
(* The encoder, one loop iteration per step, then the decoder on its patch.*)
(***************************************************************************)
InitEnc ==
    /\ old \in SeqsUpTo(EncBytes, MaxLen)
    /\ new \in SeqsUpTo(EncBytes, MaxLen)
    /\ block_size \in 1..MaxBlock
    /\ sigs = build_signatures(old, block_size)
    /\ pos = 0 /\ pending_add = <<>> /\ out = <<>>
    /\ epc = "loop" /\ last = NoIteration
    /\ DecIdle /\ ChkIdle /\ FfiIdle

EncIterate ==
    /\ epc = "loop" /\ pos < Len(new)
    /\ \E n \in {EncIter(sigs, new, block_size,
                        [pos |-> pos, pending_add |-> pending_add, out |-> out])} :
           /\ pos' = n.pos
           /\ pending_add' = n.pending_add
           /\ out' = n.out
           /\ epc' = IF n.brk THEN "exit" ELSE "loop"
           /\ last' = [valid |-> TRUE, pos |-> pos, pending_add |-> pending_add,
                       out |-> out, matched |-> n.matched,
                       block_index |-> n.block_index]
    /\ UNCHANGED <<old, new, block_size, sigs, decVars, chkVars, ffiVars>>

EncReturn ==
    /\ \/ epc = "exit"
       \/ epc = "loop" /\ pos >= Len(new)
    /\ patch' = FinalFlush(out, pending_add)
    /\ epc' = "returned"
    /\ UNCHANGED <<old, new, block_size, sigs, pos, pending_add, out, last,
                   build, applied, chkVars, ffiVars>>

ApplyPatch ==
    /\ epc = "returned" /\ applied.kind = "none"
    /\ \E b \in {"debug", "release"} :
          /\ build' = b
          /\ applied' = apply_patch_bytes(old, patch, b)
    /\ UNCHANGED <<encVars, patch, chkVars, ffiVars>>

NextEnc == EncIterate \/ EncReturn \/ ApplyPatch

SpecEnc == InitEnc /\ [][NextEnc]_vars

(***************************************************************************)
(* What the claims speak of, stated without the encoder's own machinery.   *)
(***************************************************************************)
\* The blocks of old as build_signatures partitions it.
NumBlocks(o, bs) == (Len(o) + bs - 1) \div bs
Block(o, bs, i) == SubSeq(o, i * bs + 1, Min(i * bs + bs, Len(o)))

\* The records of a well-formed patch: [op, offset, len, data]; a patch that
\* is not a sequence of complete records ends in a record with op = "bad".
RECURSIVE Records(_)
Records(p) ==
    IF p = <<>> THEN <<>>
    ELSE IF p[1] = 0 /\ Len(p) >= 5 /\ SubSeq(p, 4, 5) = <<0, 0>>
            /\ Len(p) >= 5 + from_le_bytes(SubSeq(p, 2, 3))
    THEN LET L == from_le_bytes(SubSeq(p, 2, 3))
         IN  <<[op |-> 0, offset |-> 0, len |-> L, data |-> SubSeq(p, 6, 5 + L)]>>
             \o Records(SubSeq(p, 6 + L, Len(p)))
    ELSE IF p[1] = 1 /\ Len(p) >= 13 /\ SubSeq(p, 5, 9) = <<0, 0, 0, 0, 0>>
            /\ SubSeq(p, 12, 13) = <<0, 0>>
    THEN <<[op |-> 1, offset |-> from_le_bytes(SubSeq(p, 2, 4)),
            len |-> from_le_bytes(SubSeq(p, 10, 11)), data |-> <<>>]>>
         \o Records(SubSeq(p, 14, Len(p)))
    ELSE <<[op |-> "bad", offset |-> 0, len |-> 0, data |-> <<>>]>>

Literal(bytes) == [op |-> 0, offset |-> 0, len |-> Len(bytes), data |-> bytes]
Copy(offset, length) == [op |-> 1, offset |-> offset, len |-> length, data |-> <<>>]

\* The window the iteration recorded in `last` looked at.
LastWindowLen == Min(block_size, Len(new) - last.pos)
LastWindow == SubSeq(new, last.pos + 1, last.pos + LastWindowLen)
LastHits == {i \in 0..(NumBlocks(old, block_size) - 1) :
                Block(old, block_size, i) = LastWindow}
LastPendingRecord ==
    IF last.pending_add = <<>> THEN <<>> ELSE <<Literal(last.pending_add)>>

C6_Identity ==
    (epc = "returned" /\ old = new /\ new # <<>> /\ block_size <= Len(new))
        => \E i \in 1..Len(Records(patch)) : Records(patch)[i].op = 1

C6_Witness ==
    /\ epc = "returned" /\ old = new /\ Len(new) >= 3 /\ block_size = 2
    /\ \A i \in 1..Len(Records(patch)) : Records(patch)[i].op = 1
    /\ Len(Records(patch)) = 2

(***************************************************************************)
(* C7.  First match: an iteration at pos whose window has the bytes of     *)
(* some block of old flushes the pending literal bytes as one ADD record,  *)
(* emits COPY(i * block_size, window_len) for the smallest such block      *)
(* index i and advances pos by window_len; an iteration whose window has   *)
(* the bytes of no block appends new[pos] to the pending bytes and         *)
(* advances pos by 1 (the pending bytes may then be flushed at once).      *)
(***************************************************************************)
C7_FirstMatch ==
    last.valid =>
        IF LastHits # {}
        THEN LET i == CHOOSE h \in LastHits : \A g \in LastHits : h <= g
             IN  /\ Records(out) = Records(last.out) \o LastPendingRecord
                                   \o <<Copy(i * block_size, LastWindowLen)>>
                 /\ pending_add = <<>>
                 /\ pos = last.pos + LastWindowLen
        ELSE LET pushed == Append(last.pending_add, new[last.pos + 1])
             IN  /\ pos = last.pos + 1
                 /\ \/ pending_add = pushed /\ out = last.out
                    \/ /\ pending_add = <<>>
                       /\ Records(out) = Records(last.out) \o <<Literal(pushed)>>

C7_Witness ==
    /\ last.valid /\ last.matched /\ last.pending_add # <<>>
    /\ Cardinality(LastHits) >= 2
    /\ \E g \in LastHits : last.block_index < g

(***************************************************************************)
(* C10. Bounded literal runs: after every iteration the pending bytes are  *)
(* at most block_size, and every ADD record of the patch declares a length *)
(* L with 1 <= L <= block_size.                                            *)
(***************************************************************************)
C10_BoundedLiterals ==
    /\ Len(pending_add) <= block_size
    /\ \A i \in 1..Len(Records(out)) :
          Records(out)[i].op = 0 =>
              Records(out)[i].len >= 1 /\ Records(out)[i].len <= block_size
    /\ epc = "returned" =>
          \A i \in 1..Len(Records(patch)) :
              /\ Records(patch)[i].op \in {0, 1}
              /\ Records(patch)[i].op = 0 =>
                    Records(patch)[i].len >= 1 /\ Records(patch)[i].len <= block_size

C10_Witness ==
    /\ epc = "returned" /\ block_size = 2
    /\ \E i, j \in 1..Len(Records(patch)) :
          /\ i < j
          /\ Records(patch)[i].op = 0 /\ Records(patch)[i].len = block_size
          /\ Records(patch)[j].op = 0 /\ Records(patch)[j].len = 1

DecOlds == {[i \in 1..n |-> 6 + i] : n \in 0..MaxLen}

MaxU64 == <<255, 255, 255, 255, 255, 255, 255, 255>>
MaxU32 == <<255, 255, 255, 255>>

\* Offsets 0, 1, 2, 2^32, 2^64 - 2, 2^64 - 1 and lengths 0, 1, 2, 2^32 - 1.
DecOffsets ==
    {to_le_bytes(0, 8), to_le_bytes(1, 8), to_le_bytes(2, 8),
     <<0, 0, 0, 0, 1, 0, 0, 0>>, <<254, 255, 255, 255, 255, 255, 255, 255>>, MaxU64}
DecLengths == {to_le_bytes(0, 4), to_le_bytes(1, 4), to_le_bytes(2, 4), MaxU32}

\* Single records: COPY with those fields, ADD with a true or an oversized
\* declared length, and bytes that are no opcode.
DecPieces ==
    {<<1>> \o o \o l : o \in DecOffsets, l \in DecLengths}
    \cup {AddRecord(d) : d \in SeqsUpTo({0, 1}, 2)}
    \cup {<<0>> \o MaxU32, <<0>> \o to_le_bytes(3, 4) \o <<9>>, <<2>>, <<255>>}

\* Records that may come before the last one.
DecLeading ==
    {AddRecord(<<1>>), CopyRecord(0, 1), CopyRecord(1, 1), <<1>> \o MaxU64 \o to_le_bytes(1, 4)}

RECURSIVE LeadingRuns(_)
LeadingRuns(n) ==
    IF n = 0 THEN {<<>>}
    ELSE LeadingRuns(n - 1)
         \cup {r \o p : r \in LeadingRuns(n - 1), p \in DecLeading}

\* At most MaxRecs records, cut anywhere.
DecPatches ==
    {SubSeq(r \o p, 1, k) : <<r, p, k>> \in
        {<<r, p, k>> \in LeadingRuns(MaxRecs - 1) \X DecPieces \X (0..(13 * MaxRecs)) :
            k <= Len(r) + Len(p)}}

InitDec ==
    /\ old \in DecOlds
    /\ patch \in DecPatches
    /\ new = <<>> /\ block_size = 1 /\ sigs = EmptyMap
    /\ pos = 0 /\ pending_add = <<>> /\ out = <<>> /\ last = NoIteration
    /\ epc = "returned"
    /\ build = "unset" /\ applied = NotApplied
    /\ ChkIdle /\ FfiIdle

NextDec == ApplyPatch

SpecDec == InitDec /\ [][NextDec]_vars

\* The value of a length or offset field when it is below 2^16, and 2^16
\* (more than any buffer of the model holds) otherwise.
SmallOrBig(w) ==
    IF \A i \in 3..Len(w) : w[i] = 0 THEN w[1] + 256 * w[2] ELSE 65536

\* The first thing wrong with patch p read record by record from index i
\* against an old buffer of n bytes: "clean" (nothing), "trunc" (p ends
\* inside the record), "copy_oob" (a complete COPY whose offset + length,
\* as a sum of natural numbers, is more than n), "opcode".
RECURSIVE FirstProblem(_, _, _)
FirstProblem(p, i, n) ==
    IF i >= Len(p) THEN "clean"
    ELSE IF p[i + 1] = 0
    THEN IF i + 5 > Len(p) THEN "trunc"
         ELSE LET L == SmallOrBig(SubSeq(p, i + 2, i + 5))
              IN  IF i + 5 + L > Len(p) THEN "trunc" ELSE FirstProblem(p, i + 5 + L, n)
    ELSE IF p[i + 1] = 1
    THEN IF i + 13 > Len(p) THEN "trunc"
         ELSE IF SmallOrBig(SubSeq(p, i + 2, i + 9)) + SmallOrBig(SubSeq(p, i + 10, i + 13)) > n
         THEN "copy_oob"
         ELSE FirstProblem(p, i + 13, n)
    ELSE "opcode"

\* p ends in the middle of a record (whatever its COPY records name).
EndsMidRecord(p) == FirstProblem(p, 0, 131072) = "trunc"

(***************************************************************************)
(* C2.  Copy bounds rejection: when the first record of the patch that is  *)
(* not in order is a complete COPY with offset + length > Len(old), the    *)
(* decoder returns the error "COPY out of range", also when offset +       *)
(* length does not fit 64 bits.                                            *)
(***************************************************************************)
C2_CopyBoundsRejected ==
    (applied.kind # "none" /\ FirstProblem(patch, 0, Len(old)) = "copy_oob")
        => applied = XDeltaError("COPY out of range")

(***************************************************************************)
(* C3.  Truncation rejection: for a patch that ends in the middle of a     *)
(* record the decoder returns an error; it neither returns Ok nor indexes  *)
(* a buffer out of its bounds (a panic).                                   *)
(***************************************************************************)
C3_TruncationRejected ==
    (applied.kind # "none" /\ EndsMidRecord(patch)) => applied.kind = "Err"

\* C3, the part that holds: when the first thing wrong with the patch, read
\* against old, is that it ends inside a record, the decoder returns one of
\* the three truncation errors.
C3_TruncationFirst ==
    (applied.kind # "none" /\ FirstProblem(patch, 0, Len(old)) = "trunc")
        => /\ applied.kind = "Err"
           /\ applied.msg \in {"truncated ADD length", "truncated ADD data",
                               "truncated COPY entry"}

(***************************************************************************)
(* Rolling::chksum on arbitrary 32-bit a and b.                            *)
(***************************************************************************)
ChkBytes == {0, 1, 255}
ChkWords == {<<w, x, y, z>> : w \in ChkBytes, x \in ChkBytes, y \in ChkBytes, z \in ChkBytes}
ChkRollings == [a : ChkWords, b : ChkWords, len : {0}]

InitChk ==
    /\ rolling \in ChkRollings
    /\ weak_sum = <<>>
    /\ EncIdle /\ DecIdle /\ FfiIdle

Chksum ==
    /\ weak_sum = <<>>
    /\ weak_sum' = chksum(rolling)
    /\ UNCHANGED <<rolling, encVars, decVars, ffiVars>>

NextChk == Chksum

SpecChk == InitChk /\ [][NextChk]_vars

\* The rsync value (a mod 2^16) + 2^16 * (b mod 2^16), as a u32 word.
Textbook(a, b) ==
    to_le_bytes((a[1] + 256 * a[2]) % 65536, 2) \o to_le_bytes((b[1] + 256 * b[2]) % 65536, 2)

(***************************************************************************)
(* C9.  As claimed: there are 32-bit a and b for which chksum is not the   *)
(* textbook value (a mod 2^16) + 2^16 * (b mod 2^16); stated of the state  *)
(* in which a checksum has been computed.                                  *)
(***************************************************************************)
C9_DiffersFromTextbook ==
    weak_sum # <<>> => \E r \in ChkRollings : chksum(r) # Textbook(r.a, r.b)

(***************************************************************************)
(* C9 as amended.  The shift is a u32 shift and drops the bits of b above  *)
(* bit 15: for all 32-bit a and b, chksum is the textbook value            *)
(* (a mod 2^16) + 2^16 * (b mod 2^16).                                     *)
(***************************************************************************)
C9_ChksumIsTextbook ==
    weak_sum # <<>> => weak_sum = Textbook(rolling.a, rolling.b)

C9_Witness ==
    /\ weak_sum # <<>>
    /\ rolling.b[3] = 255 /\ rolling.b[4] = 1
    /\ rolling.a[3] = 1 /\ rolling.a[1] = 255

(***************************************************************************)
(* The C boundary.                                                         *)
(***************************************************************************)
\* Variant: one slot for the whole process instead of one per thread.
set_last_error_global(le, t, err) == [x \in DOMAIN le |-> err]

set_last_error(le, t, err) == [le EXCEPT ![t] = err]

xdelta_last_error(le, t) == le[t]

\* format!("{}", e) for XDeltaError::InvalidArg
Display(e) == "invalid argument: " \o e.msg

\* `match r` of both entry points, on the caller's slot; malloc_ok is
\* whether libc::malloc returned a non-null pointer.
\* The result: the slot after the call, the return value, the message
\* given to set_last_error ("" when it is not called).
MatchResult(slot, r, malloc_ok) ==
    IF r.kind = "Ok"
    THEN IF malloc_ok
         THEN [slot |-> [len |-> Len(r.out), ptr |-> "allocated", buf |-> r.out],
               ret |-> 0, err |-> ""]
         ELSE [slot |-> [len |-> Len(r.out), ptr |-> "NULL", buf |-> <<>>],
               ret |-> -1, err |-> "failed to allocate memory"]
    ELSE [slot |-> slot, ret |-> -1, err |-> Display(r)]

FfiOlds == {<<>>, <<7, 8>>}
FfiNews == {<<>>, <<7, 9>>}
FfiBlockSizes == {0, 1, 2}
FfiPatches ==
    {AddRecord(<<1>>), CopyRecord(1, 2), <<0, 1>>, <<2>>,
     <<1>> \o MaxU64 \o to_le_bytes(1, 4)}

\* A call that returns: the slot, the thread's last error and the log.
Returned(t, m) ==
    /\ slots' = [slots EXCEPT ![t] = m.slot]
    /\ last_error' = IF m.ret = 0 THEN last_error
                     ELSE set_last_error(last_error, t, m.err)
    /\ calls' = Append(calls, [thread |-> t, ret |-> m.ret, msg |-> m.err])
    /\ pre_slot' = slots[t]
    /\ UNCHANGED <<observed, aborted>>

xdelta_create_patch_data(t) ==
    /\ ~aborted /\ Len(calls) < MaxCalls
    /\ \E nulls \in SUBSET {"old_data", "new_data", "patch_data", "patch_len"} :
          IF nulls # {}
          THEN Returned(t, MatchResult(slots[t], XDeltaError("null pointer"), TRUE))
          ELSE \E o \in FfiOlds, n \in FfiNews, bs \in FfiBlockSizes :
                  \E r \in {create_patch_bytes(o, n, bs)}, malloc_ok \in BOOLEAN :
                     Returned(t, MatchResult(slots[t], r, malloc_ok))
    /\ UNCHANGED <<build, encVars, patch, applied, chkVars>>

xdelta_apply_patch_data(t) ==
    /\ ~aborted /\ Len(calls) < MaxCalls
    /\ \E nulls \in SUBSET {"old_data", "patch_data", "new_data", "new_len"} :
          IF nulls # {}
          THEN Returned(t, MatchResult(slots[t], XDeltaError("null pointer"), TRUE))
          ELSE \E o \in FfiOlds, p \in FfiPatches :
                  \E r \in {apply_patch_bytes(o, p, build)}, malloc_ok \in BOOLEAN :
                     IF r.kind = "Panic"
                     THEN /\ aborted' = TRUE
                          /\ UNCHANGED <<slots, last_error, calls, pre_slot, observed>>
                     ELSE Returned(t, MatchResult(slots[t], r, malloc_ok))
    /\ UNCHANGED <<build, encVars, patch, applied, chkVars>>

ReadLastError(t) ==
    /\ ~aborted
    /\ observed' = [valid |-> TRUE, thread |-> t,
                    msg |-> xdelta_last_error(last_error, t), ncalls |-> Len(calls)]
    /\ UNCHANGED <<last_error, slots, calls, pre_slot, aborted, build, encVars, patch, applied, chkVars>>

InitFfi ==
    /\ last_error = [t \in Threads |-> "NULL"]
    /\ slots = [t \in Threads |-> CallerSlot]
    /\ calls = <<>> /\ pre_slot = CallerSlot
    /\ observed = NoObservation /\ aborted = FALSE
    /\ build \in {"debug", "release"}
    /\ patch = <<>> /\ applied = NotApplied
    /\ EncIdle /\ ChkIdle

NextFfi ==
    \E t \in Threads :
        \/ xdelta_create_patch_data(t)
        \/ xdelta_apply_patch_data(t)
        \/ ReadLastError(t)

SpecFfi == InitFfi /\ [][NextFfi]_vars

\* The message of the last call of the log that returned -1 on thread t,
\* "NULL" when there is none.
LastFailMsg(log, t) ==
    LET fails == {i \in 1..Len(log) : log[i].thread = t /\ log[i].ret = -1}
    IN  IF fails = {} THEN "NULL"
        ELSE log[CHOOSE i \in fails : \A j \in fails : j <= i].msg

(***************************************************************************)
(* C4.  No output is committed on failure: after a call that returned -1   *)
(* the caller's output slots hold what they held before the call.          *)
(***************************************************************************)
C4_NoOutputOnFailure ==
    calls # <<>> =>
        LET c == calls[Len(calls)]
        IN  c.ret = -1 => slots[c.thread] = pre_slot

(***************************************************************************)
(* C5.  Last-error slot: on every thread T xdelta_last_error returns the   *)
(* message of the most recent call that returned -1 on T, and null when no *)
(* call has failed on T; calls that return 0 and calls on other threads    *)
(* leave it unchanged.                                                     *)
(***************************************************************************)
C5_LastErrorSlot ==
    /\ \A t \in Threads : xdelta_last_error(last_error, t) = LastFailMsg(calls, t)
    /\ observed.valid =>
          observed.msg = LastFailMsg(SubSeq(calls, 1, observed.ncalls), observed.thread)

C5_Witness ==
    /\ Len(calls) = 2
    /\ calls[1].thread = "t1" /\ calls[1].ret = -1
    /\ calls[2].thread = "t2" /\ calls[2].ret = -1 /\ calls[2].msg # calls[1].msg
    /\ observed.valid /\ observed.thread = "t1" /\ observed.ncalls = 2
    /\ observed.msg = calls[1].msg

==========================================================================
